---- MODULE Spec2Model ----
(***************************************************************************)
(* A model of DGL_Relational_Graph_Convolutional_Network.ipynb:            *)
(*   - the preprocessing cells that turn the triple table into relation    *)
(*     codes, degree centralities, edge norms and the DGL graph (SpecEnc); *)
(*   - RGCNLayer.__init__ and RGCNLayer.forward on any arguments           *)
(*     (SpecLayer) and on well-formed ones (SpecForward, SpecApply);       *)
(*   - the row index of the input layer for wide layers (SpecIndex);       *)
(*   - Model, Model.forward and the training loop (SpecModel).             *)
(* Tensors are modelled by their shape and their row-major (contiguous)    *)
(* data, so that view(), broadcasting and indexing behave as in torch.     *)
(* Labels (node names, relation names) are modelled by their lexical rank: *)
(* label 1 sorts before label 2, and so on.                                *)
(***************************************************************************)
EXTENDS Integers, Sequences, FiniteSets, TLC

VARIABLES
    cell,               \* notebook position of the preprocessing cells
    bios_graph_data,    \* the triple table: rows [agent_A, agent_B, stmt_type]
    relation_category,  \* column bios_graph_data['relation_category']
    dict1,              \* node label -> degree centrality (a rational)
    edge_norm,          \* column bios_graph_data['edge_norm'] (radicand, a rational)
    g,                  \* the DGL graph
    num_rels,           \* notebook global num_rels
    self,               \* the RGCNLayer under construction / in use
    lpc,                \* life cycle of the layer
    weight,             \* local `weight` of RGCNLayer.forward
    index,              \* local `index` of the input layer's message_func
    msg,                \* the tensor returned by message_func
    agg,                \* nodes.data['h'] as fn.sum leaves it, before apply_func
    h,                  \* g.ndata['h'] after update_all
    model,              \* notebook global model
    mpc,                \* position in the model and training cells
    li,                 \* position of `for layer in self.layers` in Model.forward
    logits,             \* notebook global logits
    optimizer,          \* notebook global optimizer
    epoch               \* loop variable of the training loop

vars == <<cell, bios_graph_data, relation_category, dict1, edge_norm, g,
          num_rels, self, lpc, weight, index, msg, agg, h,
          model, mpc, li, logits, optimizer, epoch>>

encVars == <<cell, bios_graph_data, relation_category, dict1, edge_norm, num_rels>>
layerVars == <<self, lpc, weight, index, msg, agg, h>>
modelVars == <<model, mpc, li, logits, optimizer, epoch>>

None == [none |-> TRUE]

(***************************************************************************)
(* Bounds of the model.                                                    *)
(***************************************************************************)
MaxTriples == 3

\* three node labels, "A" < "B" < "C"
NodeLabels == {1, 2, 3}
\* two relation labels: 1 stands for "Activation", 2 for "Complex"
RelLabels == {1, 2}

Range(s) == {s[i] : i \in DOMAIN s}

Max(S) == CHOOSE x \in S : \A y \in S : y <= x

RECURSIVE SumTo(_, _)
\* sum of f(0) + ... + f(n-1), f a function on 0..n-1
SumTo(f, n) == IF n <= 0 THEN 0 ELSE f[n - 1] + SumTo(f, n - 1)

(***************************************************************************)
(* Rationals, for the centralities and the radicand of the edge norm.      *)
(***************************************************************************)
Rat(n, d) == [num |-> n, den |-> d]
RatMul(a, b) == Rat(a.num * b.num, a.den * b.den)
RatEq(a, b) == a.num * b.den = b.num * a.den

(***************************************************************************)
(* pandas: Series.astype('category').cat.codes.  The categories are the    *)
(* sorted distinct values, a value's code is its position among them.      *)
(***************************************************************************)
FirstIdx(col, x) == CHOOSE i \in DOMAIN col : col[i] = x /\ \A j \in 1..(i - 1) : col[j] # x

\* codes in order of first appearance (not what pandas does)
FirstSeenCodes(col) ==
    [i \in DOMAIN col |-> Cardinality({col[j] : j \in 1..(FirstIdx(col, col[i]) - 1)})]

CatCodes(col) ==
    [i \in DOMAIN col |-> Cardinality({x \in Range(col) : x < col[i]})]

Column(data, name) == [i \in DOMAIN data |-> data[i][name]]

(***************************************************************************)
(* networkx: from_pandas_edgelist(..., create_using=nx.DiGraph()) and      *)
(* degree_centrality.  A DiGraph keeps one edge per ordered pair; degree   *)
(* is in-degree plus out-degree (a self loop counts twice); a graph of at  *)
(* most one node gets centrality 1.                                        *)
(***************************************************************************)
DiGraphNodes(data) == Range(Column(data, "agent_A")) \cup Range(Column(data, "agent_B"))

DiGraphEdges(data) == {<<data[i].agent_A, data[i].agent_B>> : i \in DOMAIN data}

OutDegree(data, v) == Cardinality({e \in DiGraphEdges(data) : e[1] = v})

InDegree(data, v) == Cardinality({e \in DiGraphEdges(data) : e[2] = v})

\* out-degree only (not what networkx does)
OutDegreeCentrality(data) ==
    LET n == Cardinality(DiGraphNodes(data))
    IN  [v \in DiGraphNodes(data) |->
            IF n <= 1 THEN Rat(1, 1) ELSE Rat(OutDegree(data, v), n - 1)]

degree_centrality(data) ==
    LET n == Cardinality(DiGraphNodes(data))
    IN  [v \in DiGraphNodes(data) |->
            IF n <= 1 THEN Rat(1, 1)
            ELSE Rat(OutDegree(data, v) + InDegree(data, v), n - 1)]

\* sqrt(dict1[src]) alone (a slip that drops the destination factor)
EdgeNormSrcOnly(d, row) == RatMul(d[row.agent_A], Rat(1, 1))

\* np.sqrt(dict1[x.agent_A]*dict1[x.agent_B]); the value kept is the radicand
EdgeNormOf(d, row) == RatMul(d[row.agent_A], d[row.agent_B])

(***************************************************************************)
(* The preprocessing cells.                                                *)
(***************************************************************************)
Rows == [agent_A : NodeLabels, agent_B : NodeLabels, stmt_type : RelLabels]

\* the tables of n rows
TripleTables(n) == [1..n -> Rows]

NoGraph == [num_nodes |-> 0, src |-> <<>>, dst |-> <<>>, rel_type |-> <<>>,
            norm |-> <<>>, rel_dtype |-> "none"]

NoLayer == None

InitEnc ==
    /\ cell = "read_csv"
    /\ bios_graph_data = <<>>
    /\ relation_category = <<>>
    /\ dict1 = <<>>
    /\ edge_norm = <<>>
    /\ g = NoGraph
    /\ num_rels = 0
    /\ self = NoLayer
    /\ lpc = "idle"
    /\ weight = None
    /\ index = None
    /\ msg = None
    /\ agg = None
    /\ h = None
    /\ model = None
    /\ mpc = "idle"
    /\ li = 0
    /\ logits = None
    /\ optimizer = None
    /\ epoch = 0

\* bios = pd.read_csv(...); bios_graph_data = bios[['agent_A','agent_B','stmt_type']]
ReadCsv ==
    /\ cell = "read_csv"
    /\ \E n \in 1..MaxTriples : \E t \in TripleTables(n) : bios_graph_data' = t
    /\ cell' = "relation_category"
    /\ UNCHANGED <<relation_category, dict1, edge_norm, g, num_rels, layerVars, modelVars>>

\* bios_graph_data['relation_category'] = stmt_type.astype('category').cat.codes
EncodeRelations ==
    /\ cell = "relation_category"
    /\ relation_category' = CatCodes(Column(bios_graph_data, "stmt_type"))
    /\ cell' = "degree_centrality"
    /\ UNCHANGED <<bios_graph_data, dict1, edge_norm, g, num_rels, layerVars, modelVars>>

\* g_w_data = nx.from_pandas_edgelist(...); dict1 = nx.degree_centrality(g_w_data)
DegreeCentrality ==
    /\ cell = "degree_centrality"
    /\ dict1' = degree_centrality(bios_graph_data)
    /\ cell' = "edge_norm"
    /\ UNCHANGED <<bios_graph_data, relation_category, edge_norm, g, num_rels, layerVars, modelVars>>

\* bios_graph_data['edge_norm'] = apply(lambda x: np.sqrt(dict1[A]*dict1[B]))
EdgeNorm ==
    /\ cell = "edge_norm"
    /\ edge_norm' = [i \in DOMAIN bios_graph_data |-> EdgeNormOf(dict1, bios_graph_data[i])]
    /\ cell' = "DGLGraph"
    /\ UNCHANGED <<bios_graph_data, relation_category, dict1, g, num_rels, layerVars, modelVars>>

\* edge_src / edge_dst are coded per column; DGLGraph((edge_src, edge_dst))
BuildGraph ==
    /\ cell = "DGLGraph"
    /\ LET edge_src == CatCodes(Column(bios_graph_data, "agent_A"))
           edge_dst == CatCodes(Column(bios_graph_data, "agent_B"))
       IN  g' = [NoGraph EXCEPT
                    !.src = edge_src,
                    !.dst = edge_dst,
                    !.num_nodes = Max(Range(edge_src) \cup Range(edge_dst)) + 1]
    /\ cell' = "edata"
    /\ UNCHANGED <<bios_graph_data, relation_category, dict1, edge_norm, num_rels, layerVars, modelVars>>

\* num_rels = len(np.unique(relation_category)); g.edata['rel_type'] = edge_type;
\* g.edata['norm'] = edge_norm
EdgeData ==
    /\ cell = "edata"
    /\ num_rels' = Cardinality(Range(relation_category))
    /\ g' = [g EXCEPT !.rel_type = relation_category,
                      !.norm = edge_norm,
                      !.rel_dtype = "int8"]
    /\ cell' = "done"
    /\ UNCHANGED <<bios_graph_data, relation_category, dict1, edge_norm, layerVars, modelVars>>

NextEnc ==
    \/ ReadCsv
    \/ EncodeRelations
    \/ DegreeCentrality
    \/ EdgeNorm
    \/ BuildGraph
    \/ EdgeData

SpecEnc == InitEnc /\ [][NextEnc]_vars

(***************************************************************************)
(* torch tensors: a shape and the row-major data (1-based sequence).  A    *)
(* tensor operation that raises yields a value with ok = FALSE.            *)
(***************************************************************************)
MaxDim == 2
MaxRels == 2
MaxEdges == 2
MaxNodes == 2

Seeds == {0, 1}
NormValues == {1, 2}

RECURSIVE Numel(_)
Numel(shape) == IF shape = <<>> THEN 1 ELSE Head(shape) * Numel(Tail(shape))

Tensor(shape, data) == [ok |-> TRUE, err |-> "", shape |-> shape, data |-> data]

Raised(kind) == [ok |-> FALSE, err |-> kind, shape |-> <<>>, data |-> <<>>]

\* element [a][b] of a 2-d tensor, [a][b][c] of a 3-d tensor (0-based)
At2(t, a, b) == t.data[a * t.shape[2] + b + 1]

At3(t, a, b, c) == t.data[(a * t.shape[2] + b) * t.shape[3] + c + 1]

\* Tensor.view: the same storage read under another shape
View(t, shape) ==
    IF Numel(shape) = Numel(t.shape) THEN Tensor(shape, t.data) ELSE Raised("RuntimeError")

\* the stand-in for the random initialiser: n values, distinct in magnitude,
\* of alternating sign, chosen by the seed
XavierValues(n, seed) ==
    [k \in 1..n |-> (2 * k + 1 + 2 * (seed \div 2)) * (IF (k + seed) % 2 = 0 THEN 1 ELSE -1)]

\* arithmetic of an int8 tensor wraps modulo 2^8; an int64 tensor does not in
\* the range of the model
Wrap8(x) == ((x + 128) % 256) - 128

IntMul(dtype, a, b) == IF dtype = "int8" THEN Wrap8(a * b) ELSE a * b

(***************************************************************************)
(* Broadcasting elementwise product of two tensors of rank <= 2: shapes    *)
(* are aligned at the trailing dimension, a dimension of size 1 stretches. *)
(***************************************************************************)
Pad2(shape) ==
    IF Len(shape) = 0 THEN <<1, 1>>
    ELSE IF Len(shape) = 1 THEN <<1, shape[1]>>
    ELSE shape

BroadcastDim(x, y) == IF x = 1 THEN y ELSE x

BroadcastMul(a, b) ==
    LET pa == Pad2(a.shape)
        pb == Pad2(b.shape)
        compatible == \A k \in 1..2 : pa[k] = pb[k] \/ pa[k] = 1 \/ pb[k] = 1
        d1 == BroadcastDim(pa[1], pb[1])
        d2 == BroadcastDim(pa[2], pb[2])
        rank == IF Len(a.shape) > Len(b.shape) THEN Len(a.shape) ELSE Len(b.shape)
        shape == SubSeq(<<d1, d2>>, 3 - rank, 2)
        elem(t, p, i, j) ==
            t.data[(IF p[1] = 1 THEN 0 ELSE i) * p[2] + (IF p[2] = 1 THEN 0 ELSE j) + 1]
    IN  IF ~compatible THEN Raised("RuntimeError")
        ELSE Tensor(shape,
                    [k \in 1..(d1 * d2) |->
                        LET i == (k - 1) \div d2
                            j == (k - 1) % d2
                        IN  elem(a, pa, i, j) * elem(b, pb, i, j)])

\* Tensor.squeeze(): every dimension of size 1 is removed
Squeeze(t) == Tensor(SelectSeq(t.shape, LAMBDA d : d # 1), t.data)

(***************************************************************************)
(* RGCNLayer.__init__                                                      *)
(***************************************************************************)
\* the "sanity check" of the constructor
SanityCheck(num_bases, nrels) ==
    IF num_bases <= 0 \/ num_bases > nrels THEN nrels ELSE num_bases

\* torch.Tensor(*sizes): uninitialised storage; a negative size raises
TorchTensor(shape) ==
    IF \E k \in DOMAIN shape : shape[k] < 0 THEN Raised("RuntimeError")
    ELSE Tensor(shape, [k \in 1..Numel(shape) |-> 0])

\* nn.init.xavier_uniform_: the ways the call can end for a tensor of this shape.
\* Fewer than two dimensions: ValueError.  fan_in + fan_out = 0: the bound
\* divides by zero.  An empty first or second dimension of a 3-d tensor: the
\* receptive field is read from tensor[0][0] by some releases of torch (which
\* raises IndexError) and from the shape by others (which succeeds).
XavierOutcomes(shape) ==
    IF Len(shape) < 2 THEN {"ValueError"}
    ELSE LET receptive == Numel(SubSeq(shape, 3, Len(shape)))
             fan_in == shape[2] * receptive
             fan_out == shape[1] * receptive
         IN  IF fan_in + fan_out = 0 THEN {"ZeroDivisionError"}
             ELSE IF Len(shape) > 2 /\ (shape[1] = 0 \/ shape[2] = 0)
                  THEN {"ok", "IndexError"}
                  ELSE {"ok"}

\* bool(tensor), as `if self.bias:` evaluates it once self.bias is a Parameter
\* of uninitialised storage: more than one element raises, one element is
\* whatever the storage holds
BoolOutcomes(t) ==
    IF Numel(t.shape) > 1 THEN {"RuntimeError"}
    ELSE IF Numel(t.shape) = 1 THEN {"True", "False"}
    ELSE {"False"}

ArgDims == -1..MaxDim
ArgRels == -1..MaxRels
ArgBases == -1..(MaxRels + 1)

\* the values of the `activation` argument: the default, F.relu and
\* partial(F.softmax, dim=1)
Activations == {"None", "relu", "softmax"}

LayerArgs(in_feat, out_feat, nrels, num_bases, bias, activation, is_input_layer) ==
    [in_feat |-> in_feat, out_feat |-> out_feat, num_rels |-> nrels,
     num_bases_arg |-> num_bases, num_bases |-> num_bases, bias |-> bias,
     activation |-> activation, is_input_layer |-> is_input_layer,
     weight |-> None, w_comp |-> None]

InitLayer ==
    /\ cell = "read_csv"
    /\ bios_graph_data = <<>>
    /\ relation_category = <<>>
    /\ dict1 = <<>>
    /\ edge_norm = <<>>
    /\ g = NoGraph
    /\ num_rels = 0
    /\ self = NoLayer
    /\ lpc = "new"
    /\ weight = None
    /\ index = None
    /\ msg = None
    /\ agg = None
    /\ h = None
    /\ model = None
    /\ mpc = "idle"
    /\ li = 0
    /\ logits = None
    /\ optimizer = None
    /\ epoch = 0

\* RGCNLayer(in_feat, out_feat, num_rels, num_bases, bias, activation,
\* is_input_layer): the ways __init__ can end, as [ok, layer]; ok = FALSE when it
\* raises, layer holds the attributes assigned so far
RGCNLayerInit(in_feat, out_feat, nrels, num_bases, bias, activation, is_input_layer, seed) ==
    LET args == LayerArgs(in_feat, out_feat, nrels, num_bases, bias, activation,
                          is_input_layer)
        nb == SanityCheck(num_bases, nrels)
        w0 == TorchTensor(<<nb, in_feat, out_feat>>)
        decomposed == nb < nrels
        b0 == TorchTensor(<<out_feat>>)
        checked == [args EXCEPT !.num_bases = nb]
        fail == [ok |-> FALSE, layer |-> checked]
    IN  IF ~w0.ok \/ (bias /\ ~b0.ok)
        THEN {fail}
        ELSE {IF wx # "ok" \/ bx # "False"
              THEN \* xavier_uniform_(self.weight) raised, or bool(self.bias)
                   \* raised, or it was True and xavier_uniform_(self.bias),
                   \* a 1-d tensor, raised
                   fail
              ELSE [ok |-> TRUE,
                    layer |-> [checked EXCEPT
                        !.weight = Tensor(w0.shape, XavierValues(Numel(w0.shape), seed)),
                        !.w_comp = IF decomposed
                                   THEN Tensor(<<nrels, nb>>,
                                               XavierValues(nrels * nb, seed + 1))
                                   ELSE None,
                        !.bias = IF bias THEN b0 ELSE None]] :
                 wx \in XavierOutcomes(w0.shape),
                 bx \in (IF bias THEN BoolOutcomes(b0) ELSE {"False"})}

\* layer = RGCNLayer(...), the arguments drawn from the given sets
ConstructFrom(dims, rels, bases, activations, seeds) ==
    /\ lpc = "new"
    /\ \E in_feat \in dims, out_feat \in dims, nrels \in rels,
          num_bases \in bases, bias \in {FALSE, TRUE}, activation \in activations,
          is_input_layer \in BOOLEAN, seed \in seeds :
        \E r \in RGCNLayerInit(in_feat, out_feat, nrels, num_bases, bias,
                                activation, is_input_layer, seed) :
            /\ self' = r.layer
            /\ lpc' = IF r.ok THEN "constructed" ELSE "raised"
    /\ UNCHANGED <<encVars, g, weight, index, msg, agg, h, modelVars>>

\* a layer built from any arguments, accepted or rejected, with the default
\* activation
Construct == ConstructFrom(ArgDims, ArgRels, ArgBases, {"None"}, Seeds)

(***************************************************************************)
(* RGCNLayer.forward                                                       *)
(***************************************************************************)
ForwardWeightViewed(s) == View(s.weight, <<s.in_feat, s.num_bases, s.out_feat>>)

\* lines 97-103: weight.view(in_feat, num_bases, out_feat), then
\* matmul(w_comp, weight), of shape (in_feat, num_rels, out_feat), then
\* .view(num_rels, in_feat, out_feat)
ForwardWeight(s) ==
    IF s.num_bases < s.num_rels
    THEN LET B == s.num_bases
             R == s.num_rels
             I == s.in_feat
             O == s.out_feat
             v == View(s.weight, <<I, B, O>>)
             mm == Tensor(<<I, R, O>>,
                          [k \in 1..(I * R * O) |->
                              LET o == (k - 1) % O
                                  r == ((k - 1) \div O) % R
                                  i == (k - 1) \div (O * R)
                              IN  SumTo([b \in 0..(B - 1) |->
                                            At2(s.w_comp, r, b) * At3(v, i, b, o)], B)])
         IN  View(mm, <<R, I, O>>)
    ELSE s.weight

NormTensor(gr) == Tensor(<<Len(gr.norm)>>, gr.norm)

\* line 110: rel_type * self.in_feat + src_id for one edge; the product has the
\* dtype of rel_type, the sum with the int64 id is int64
InputIndex(dtype, rel_type, in_feat, src_id) == IntMul(dtype, rel_type, in_feat) + src_id

\* line 110: index = edges.data['rel_type'] * self.in_feat + edges.src['id']
MessageIndex(s, gr) ==
    [e \in 1..Len(gr.src) |->
        InputIndex(gr.rel_dtype, gr.rel_type[e], s.in_feat, gr.id[gr.src[e] + 1])]

\* lines 106-111: message_func of the input layer
InputMessage(s, w, gr) ==
    LET O == s.out_feat
        E == Len(gr.src)
        embed == View(w, <<Numel(w.shape) \div O, O>>)
        rows == embed.shape[1]
        idx == MessageIndex(s, gr)
        row(e) == IF idx[e] < 0 THEN idx[e] + rows ELSE idx[e]
    IN  IF \E e \in 1..E : idx[e] < -rows \/ idx[e] >= rows
        THEN Raised("IndexError")
        ELSE BroadcastMul(
                Tensor(<<E, O>>,
                       [k \in 1..(E * O) |->
                           At2(embed, row(((k - 1) \div O) + 1), (k - 1) % O)]),
                NormTensor(gr))

\* lines 113-117: message_func of a hidden layer
HiddenMessage(s, w, gr) ==
    LET O == s.out_feat
        I == s.in_feat
        E == Len(gr.src)
        R0 == w.shape[1]
        rel(e) == IF gr.rel_type[e] < 0 THEN gr.rel_type[e] + R0 ELSE gr.rel_type[e]
    IN  IF gr.rel_dtype # "int64"
        THEN \* an index tensor must be long, byte or bool
             Raised("IndexError")
        ELSE IF \E e \in 1..E : gr.rel_type[e] < -R0 \/ gr.rel_type[e] >= R0
        THEN Raised("IndexError")
        ELSE IF gr.h = None
        THEN \* edges.src['h'] without a node feature 'h'
             Raised("KeyError")
        ELSE IF Len(gr.h.shape) # 2 \/ gr.h.shape[2] # I
        THEN \* bmm needs (E, 1, in_feat) against (E, in_feat, out_feat)
             Raised("RuntimeError")
        ELSE BroadcastMul(
                Squeeze(Tensor(<<E, 1, O>>,
                               [k \in 1..(E * O) |->
                                   LET e == ((k - 1) \div O) + 1
                                       o == (k - 1) % O
                                   IN  SumTo([i \in 0..(I - 1) |->
                                                 At2(gr.h, gr.src[e], i)
                                                   * At3(w, rel(e), i, o)], I)])),
                NormTensor(gr))

\* the graphs a layer of this configuration is run on: ids are arange(n), the
\* node feature 'h' has in_feat columns
Graphs(s) ==
    UNION {
        {[num_nodes |-> n, src |-> es, dst |-> ed, rel_type |-> rt, norm |-> nm,
          rel_dtype |-> dt, id |-> [v \in 1..n |-> v - 1],
          h |-> Tensor(<<n, s.in_feat>>,
                       [k \in 1..(n * s.in_feat) |-> k + 1])] :
            es \in [1..E -> 0..(n - 1)], ed \in [1..E -> 0..(n - 1)],
            rt \in [1..E -> -1..s.num_rels], nm \in [1..E -> NormValues],
            dt \in {"int8", "int64"}} :
        n \in 1..MaxNodes, E \in 1..MaxEdges}

SumReduceBySource(m, gr) ==
    LET E == Len(gr.src)
        n == gr.num_nodes
    IN  IF ~m.ok THEN m
        ELSE IF m.shape[1] # E THEN Raised("DGLError")
        ELSE LET feat == Tail(m.shape)
                 F == Numel(feat)
             IN  Tensor(<<n>> \o feat,
                        [k \in 1..(n * F) |->
                            LET v == (k - 1) \div F
                                f == (k - 1) % F
                            IN  SumTo([e \in 0..(E - 1) |->
                                          IF gr.src[e + 1] = v
                                          THEN m.data[e * F + f + 1] ELSE 0], E)])

\* fn.sum(msg='msg', out='h'): the message tensor has one row per edge; row e is
\* added to the row of node dst[e], a node without incoming edges keeps zeros
SumReduce(m, gr) ==
    LET E == Len(gr.src)
        n == gr.num_nodes
    IN  IF ~m.ok THEN m
        ELSE IF m.shape[1] # E
        THEN \* the message frame must have one row per edge
             Raised("DGLError")
        ELSE LET feat == Tail(m.shape)
                 F == Numel(feat)
             IN  Tensor(<<n>> \o feat,
                        [k \in 1..(n * F) |->
                            LET v == (k - 1) \div F
                                f == (k - 1) % F
                            IN  SumTo([e \in 0..(E - 1) |->
                                          IF gr.dst[e + 1] = v
                                          THEN m.data[e * F + f + 1] ELSE 0], E)])

\* bool(self.bias) in `if self.bias:`: None is false, a Parameter of one element
\* is true iff the element is nonzero, of no element false, of more it raises
BiasBool(b) ==
    IF b = None THEN "False"
    ELSE IF Numel(b.shape) > 1 THEN "RuntimeError"
    ELSE IF Numel(b.shape) = 1 /\ b.data[1] # 0 THEN "True"
    ELSE "False"

\* h + self.bias: the bias, of shape (out_feat,), is broadcast along the last axis
AddBias(t, b) ==
    LET L == t.shape[Len(t.shape)]
        O == b.shape[1]
        front == SubSeq(t.shape, 1, Len(t.shape) - 1)
    IN  IF L # O /\ L # 1 /\ O # 1 THEN Raised("RuntimeError")
        ELSE LET W == Max({L, O})
             IN  Tensor(front \o <<W>>,
                        [k \in 1..(Numel(front) * W) |->
                            LET j == (k - 1) % W
                                i == (k - 1) \div W
                            IN  t.data[i * L + (IF L = 1 THEN 0 ELSE j) + 1]
                                  + b.data[(IF O = 1 THEN 0 ELSE j) + 1]])

\* F.relu
Relu(t) == Tensor(t.shape, [k \in DOMAIN t.data |-> Max({t.data[k], 0})])

\* partial(F.softmax, dim=1): each entry is exp(x) over the sum of exp along
\* axis 1, kept symbolic as the row it normalises and the position in it; a
\* tensor of fewer than two dimensions has no axis 1
Softmax(t) ==
    IF Len(t.shape) < 2 THEN Raised("IndexError")
    ELSE LET C == t.shape[2]
         IN  Tensor(t.shape,
                    [k \in DOMAIN t.data |->
                        LET i == (k - 1) \div C
                        IN  [softmax |-> [o \in 1..C |-> t.data[i * C + o]],
                             at |-> (k - 1) % C]])

\* the operations apply_func performs on the reduced feature, in order
ApplyOps(s) ==
    (IF BiasBool(s.bias) = "True" THEN <<"add_bias">> ELSE <<>>)
       \o (IF s.activation # "None" THEN <<"activation">> ELSE <<>>)

\* lines 119-125: apply_func on the reduced feature
ApplyFunc(s, a) ==
    IF ~a.ok THEN a
    ELSE LET bb == BiasBool(s.bias)
             hb == IF bb = "True" THEN AddBias(a, s.bias) ELSE a
         IN  IF bb = "RuntimeError" THEN Raised("RuntimeError")
             ELSE IF ~hb.ok \/ s.activation = "None" THEN hb
             ELSE IF s.activation = "relu" THEN Relu(hb)
             ELSE Softmax(hb)

\* the locals and the node feature one call layer(g) produces
LayerForward(s, gr) ==
    LET w == ForwardWeight(s)
        m == IF s.is_input_layer THEN InputMessage(s, w, gr) ELSE HiddenMessage(s, w, gr)
        a == SumReduce(m, gr)
    IN  [weight |-> w, index |-> IF s.is_input_layer THEN MessageIndex(s, gr) ELSE None,
         msg |-> m, agg |-> a, h |-> ApplyFunc(s, a)]

\* layer(g) on one of the given graphs
ForwardOn(graphs) ==
    /\ lpc = "constructed"
    /\ \E gr \in graphs :
          LET out == LayerForward(self, gr)
          IN  /\ g' = gr
              /\ weight' = out.weight
              /\ index' = out.index
              /\ msg' = out.msg
              /\ agg' = out.agg
              /\ h' = out.h
    /\ lpc' = "forwarded"
    /\ UNCHANGED <<encVars, self, modelVars>>

\* layer(g) on any graph, with relation ids in and out of range
Forward == ForwardOn(Graphs(self))

NextLayer ==
    \/ Construct
    \/ Forward

SpecLayer == InitLayer /\ [][NextLayer]_vars

(***************************************************************************)
(* RGCNLayer on well-formed input: positive dimensions, relation ids in    *)
(* [0, num_rels).  SpecForward varies the relations and the bases under    *)
(* the default activation; SpecApply varies the activation and the bias    *)
(* for a single relation.                                                  *)
(***************************************************************************)
FwdDims == {1, 2}
FwdRels == {1, 2}
FwdBases == {-1, 1}
FwdNodes == {1, 2}

ValidGraphs(s) ==
    UNION {
        {[num_nodes |-> n, src |-> es, dst |-> ed, rel_type |-> rt, norm |-> nm,
          rel_dtype |-> dt, id |-> [v \in 1..n |-> v - 1],
          h |-> Tensor(<<n, s.in_feat>>,
                       [k \in 1..(n * s.in_feat) |-> k + 1])] :
            es \in [1..E -> 0..(n - 1)], ed \in [1..E -> 0..(n - 1)],
            rt \in [1..E -> 0..(s.num_rels - 1)], nm \in [1..E -> NormValues],
            dt \in {"int8", "int64"}} :
        n \in FwdNodes, E \in 1..MaxEdges}

ConstructLayer == ConstructFrom(FwdDims, FwdRels, FwdBases, {"None"}, {0})

ForwardValid == ForwardOn(ValidGraphs(self))

NextForward ==
    \/ ConstructLayer
    \/ ForwardValid

SpecForward == InitLayer /\ [][NextForward]_vars

ConstructActivated == ConstructFrom(FwdDims, {1}, {-1}, Activations, {0})

NextApply ==
    \/ ConstructActivated
    \/ ForwardValid

SpecApply == InitLayer /\ [][NextApply]_vars

(***************************************************************************)
(* Model, Model.forward and the training loop (SpecModel).                 *)
(***************************************************************************)
MaxHiddenLayers == 1

n_epochs == 25

\* the graphs the preprocessing cells leave: relation ids dense from 0, no node
\* feature set yet
ModelGraphs ==
    UNION {
        {[num_nodes |-> n, src |-> es, dst |-> ed, rel_type |-> rt, norm |-> nm,
          rel_dtype |-> dt, id |-> None, h |-> None] :
            es \in [1..E -> 0..(n - 1)], ed \in [1..E -> 0..(n - 1)],
            rt \in {r \in [1..E -> 0..(Max(FwdRels) - 1)] :
                       Range(r) = 0..(Cardinality(Range(r)) - 1)},
            nm \in [1..E -> NormValues],
            dt \in {"int8", "int64"}} :
        n \in FwdNodes, E \in {1, 2}}

\* the names the cells before the training loop bind
NotebookNames ==
    {"bios_graph_data", "dict1", "g", "num_rels", "n_hidden", "n_bases",
     "n_hidden_layers", "n_epochs", "lr", "l2norm", "num_classes", "model",
     "train_idx", "valid_idx", "test_idx", "optimizer"}

InitModel ==
    /\ cell = "done"
    /\ bios_graph_data = <<>>
    /\ relation_category = <<>>
    /\ dict1 = <<>>
    /\ edge_norm = <<>>
    /\ g \in ModelGraphs
    /\ num_rels = Cardinality(Range(g.rel_type))
    /\ self = NoLayer
    /\ lpc = "idle"
    /\ weight = None
    /\ index = None
    /\ msg = None
    /\ agg = None
    /\ h = None
    /\ model = None
    /\ mpc = "config"
    /\ li = 0
    /\ logits = None
    /\ optimizer = None
    /\ epoch = 0

build_input_layer(m) ==
    RGCNLayerInit(m.num_nodes, m.h_dim, m.num_rels, m.num_bases, FALSE, "relu", TRUE, 0)

\* the i-th call of build_hidden_layer, each with its own random weights
build_hidden_layer(m, i) ==
    RGCNLayerInit(m.h_dim, m.h_dim, m.num_rels, m.num_bases, FALSE, "relu", FALSE, i)

build_output_layer(m) ==
    RGCNLayerInit(m.h_dim, m.out_dim, m.num_rels, m.num_bases, FALSE, "softmax", FALSE,
                  Max({m.num_hidden_layers, 0}) + 1)

\* for _ in range(k): self.layers.append(self.build_hidden_layer())
RECURSIVE HiddenLayers(_, _)
HiddenLayers(m, k) ==
    IF k <= 0 THEN {<<>>}
    ELSE {hs \o <<h2h>> : hs \in HiddenLayers(m, k - 1), h2h \in build_hidden_layer(m, k)}

build_model_default_depth(m) ==
    {<<i2h>> \o hs \o <<h2o>> :
        i2h \in build_input_layer(m),
        hs \in HiddenLayers(m, 1),
        h2o \in build_output_layer(m)}

\* the ways build_model can end: one [ok, layer] per layer appended
build_model(m) ==
    {<<i2h>> \o hs \o <<h2o>> :
        i2h \in build_input_layer(m),
        hs \in HiddenLayers(m, m.num_hidden_layers),
        h2o \in build_output_layer(m)}

create_features(m) == [v \in 1..m.num_nodes |-> v - 1]

\* model = Model(len(g), n_hidden, num_classes, num_rels, num_bases=n_bases,
\*               num_hidden_layers=n_hidden_layers)
BuildModel ==
    /\ mpc = "config"
    /\ \E n_hidden \in FwdDims, num_classes \in FwdDims, n_bases \in FwdBases,
          n_hidden_layers \in 0..MaxHiddenLayers :
        LET m == [num_nodes |-> g.num_nodes, h_dim |-> n_hidden, out_dim |-> num_classes,
                  num_rels |-> num_rels, num_bases |-> n_bases,
                  num_hidden_layers |-> n_hidden_layers,
                  layers |-> <<>>, features |-> None]
        IN  \E built \in build_model(m) :
                IF \A i \in DOMAIN built : built[i].ok
                THEN /\ model' = [m EXCEPT
                                    !.layers = [i \in DOMAIN built |-> built[i].layer],
                                    !.features = create_features(m)]
                     /\ mpc' = "optimizer"
                ELSE /\ model' = m
                     /\ mpc' = "raised"
    /\ UNCHANGED <<encVars, g, layerVars, li, logits, optimizer, epoch>>

\* optimizer = torch.optim.Adam(model.parameters(), ...); model.train();
\* for epoch in range(n_epochs):
TrainStart ==
    /\ mpc = "optimizer"
    /\ optimizer' = [grads |-> "None", step |-> 0]
    /\ epoch' = 0
    /\ mpc' = IF 0 < n_epochs THEN "zero_grad" ELSE "trained"
    /\ UNCHANGED <<encVars, g, layerVars, model, li, logits>>

\* Model.forward: if self.features is not None: g.ndata['id'] = self.features
ForwardSetId ==
    /\ mpc = "forward"
    /\ g' = [g EXCEPT !.id = model.features]
    /\ li' = 1
    /\ mpc' = "layers"
    /\ UNCHANGED <<encVars, layerVars, model, logits, optimizer, epoch>>

LayerAtReversed(m, i) == m.layers[Len(m.layers) + 1 - i]

\* the layer `for layer in self.layers` yields at position i
LayerAt(m, i) == m.layers[i]

\* Model.forward: layer(g) for the next layer of self.layers
ForwardLayer ==
    /\ mpc = "layers"
    /\ li <= Len(model.layers)
    /\ LET layer == LayerAt(model, li)
           out == LayerForward(layer, g)
       IN  /\ self' = layer
           /\ weight' = out.weight
           /\ index' = out.index
           /\ msg' = out.msg
           /\ agg' = out.agg
           /\ h' = out.h
           /\ IF out.h.ok
              THEN /\ g' = [g EXCEPT !.h = out.h]
                   /\ li' = li + 1
                   /\ mpc' = "layers"
              ELSE /\ g' = g
                   /\ li' = li
                   /\ mpc' = "raised"
    /\ UNCHANGED <<encVars, lpc, model, logits, optimizer, epoch>>

\* Model.forward: return g.ndata.pop('h'), assigned to logits by the loop
ForwardReturn ==
    /\ mpc = "layers"
    /\ li > Len(model.layers)
    /\ logits' = g.h
    /\ g' = [g EXCEPT !.h = None]
    /\ mpc' = "loss"
    /\ UNCHANGED <<encVars, layerVars, model, li, optimizer, epoch>>

\* the statements of the loop body other than the call of model.forward, one
\* per step: a name no cell binds raises NameError
TrainStep ==
    /\ mpc \in {"zero_grad", "loss", "backward", "step", "metrics"}
    /\ CASE mpc = "zero_grad" ->
               \* optimizer.zero_grad(); logits = model.forward(g)
               /\ optimizer' = [optimizer EXCEPT
                                   !.grads = IF @ = "None" THEN "None" ELSE "zeros"]
               /\ mpc' = "forward"
               /\ epoch' = epoch
          [] mpc = "loss" ->
               \* loss = F.cross_entropy(logits[train_idx], labels[train_idx])
               /\ mpc' = IF {"train_idx", "labels"} \subseteq NotebookNames
                         THEN "backward" ELSE "raised"
               /\ UNCHANGED <<optimizer, epoch>>
          [] mpc = "backward" ->
               \* loss.backward()
               /\ optimizer' = [optimizer EXCEPT !.grads = "computed"]
               /\ mpc' = "step"
               /\ epoch' = epoch
          [] mpc = "step" ->
               \* optimizer.step()
               /\ optimizer' = [optimizer EXCEPT !.step = @ + 1]
               /\ mpc' = "metrics"
               /\ epoch' = epoch
          [] mpc = "metrics" ->
               \* train_acc, val_loss, val_acc, print; then the next epoch
               /\ IF {"train_idx", "labels", "val_idx"} \subseteq NotebookNames
                  THEN /\ epoch' = epoch + 1
                       /\ mpc' = IF epoch + 1 < n_epochs THEN "zero_grad" ELSE "trained"
                  ELSE /\ epoch' = epoch
                       /\ mpc' = "raised"
               /\ UNCHANGED optimizer
    /\ UNCHANGED <<encVars, g, layerVars, model, li, logits>>

NextModel ==
    \/ BuildModel
    \/ TrainStart
    \/ TrainStep
    \/ ForwardSetId
    \/ ForwardLayer
    \/ ForwardReturn

SpecModel == InitModel /\ [][NextModel]_vars

(***************************************************************************)
(* The row index of the input layer for wide layers (SpecIndex): in_feat   *)
(* is the node count, up to the notebook's 18210 nodes; the weights, which *)
(* the index does not read, are left out.                                  *)
(***************************************************************************)
NotebookNodes == 18210

IndexDims == {1, 2, 42, 43, 64, 127, 128, 129, 256, NotebookNodes}
IndexRels == {1, 2, 3, 4}

InitIndex ==
    /\ cell = "done"
    /\ bios_graph_data = <<>>
    /\ relation_category = <<>>
    /\ dict1 = <<>>
    /\ edge_norm = <<>>
    /\ num_rels \in IndexRels
    /\ \E n \in IndexDims, src \in 0..1, last \in BOOLEAN, rel \in 0..(num_rels - 1) :
          /\ src < n
          /\ g = [num_nodes |-> n,
                   src |-> <<IF last THEN n - 1 - src ELSE src>>, dst |-> <<0>>,
                   rel_type |-> <<rel>>, norm |-> <<1>>, rel_dtype |-> "int8",
                   id |-> [v \in 1..n |-> v - 1], h |-> None]
          /\ self = [LayerArgs(n, 1, num_rels, -1, FALSE, "relu", TRUE) EXCEPT
                        !.num_bases = SanityCheck(-1, num_rels), !.bias = None]
    /\ lpc = "message_func"
    /\ weight = None
    /\ index = None
    /\ msg = None
    /\ agg = None
    /\ h = None
    /\ model = None
    /\ mpc = "idle"
    /\ li = 0
    /\ logits = None
    /\ optimizer = None
    /\ epoch = 0

\* message_func of the input layer, up to the assignment of index
ComputeIndex ==
    /\ lpc = "message_func"
    /\ index' = MessageIndex(self, g)
    /\ lpc' = "indexed"
    /\ UNCHANGED <<encVars, g, self, weight, msg, agg, h, modelVars>>

NextIndex == ComputeIndex

SpecIndex == InitIndex /\ [][NextIndex]_vars

(***************************************************************************)
(* Properties of the preprocessing cells.                                  *)
(***************************************************************************)
StmtType == Column(bios_graph_data, "stmt_type")
AgentA == Column(bios_graph_data, "agent_A")
AgentB == Column(bios_graph_data, "agent_B")
RelationsCoded == cell \notin {"read_csv", "relation_category"}
NormsComputed == cell \in {"DGLGraph", "edata", "done"}
GraphBuilt == cell \in {"edata", "done"}
NumNodeLabels == Cardinality(DiGraphNodes(bios_graph_data))

\* C4 as stated: relation ids follow first appearance; the id of a label is the
\* number of distinct labels seen before its first occurrence, so the labels
\* [Complex, Activation, Complex] get the ids [0, 1, 0].
C4_FirstAppearanceIds ==
    RelationsCoded =>
        /\ \A i \in DOMAIN StmtType :
              relation_category[i] =
                 Cardinality({StmtType[j] : j \in 1..(FirstIdx(StmtType, StmtType[i]) - 1)})
        /\ (StmtType = <<2, 1, 2>> => relation_category = <<0, 1, 0>>)

\* C4 amended: relation ids follow the lexical order of the distinct labels: the
\* ids are dense in [0, K) for K distinct labels, a lexically smaller label has a
\* smaller id, equal labels have equal ids, and [Complex, Activation, Complex]
\* gets [1, 0, 1].
C4_LexicalIds ==
    RelationsCoded =>
        /\ DOMAIN relation_category = DOMAIN StmtType
        /\ Range(relation_category) = 0..(Cardinality(Range(StmtType)) - 1)
        /\ \A i, j \in DOMAIN StmtType :
              (StmtType[i] < StmtType[j]) <=> (relation_category[i] < relation_category[j])
        /\ (StmtType = <<2, 1, 2>> => relation_category = <<1, 0, 1>>)

C4_Witness ==
    /\ RelationsCoded
    /\ StmtType = <<2, 1, 2>>
    /\ relation_category = <<1, 0, 1>>

\* C5: every distinct node label has exactly one id in [0, N), N the number of
\* distinct labels; the id is the same whether the label is a subject (edge
\* source) or an object (edge destination), and different labels have different
\* ids.  (The order of assignment is left open here: the ids already fail to be
\* a function of the label.)
C5_OneIdPerNodeLabel ==
    GraphBuilt =>
        /\ \A i \in DOMAIN AgentA : g.src[i] \in 0..(NumNodeLabels - 1)
        /\ \A i \in DOMAIN AgentB : g.dst[i] \in 0..(NumNodeLabels - 1)
        /\ \A i, j \in DOMAIN bios_graph_data :
              /\ (AgentA[i] = AgentA[j]) <=> (g.src[i] = g.src[j])
              /\ (AgentB[i] = AgentB[j]) <=> (g.dst[i] = g.dst[j])
              /\ (AgentA[i] = AgentB[j]) <=> (g.src[i] = g.dst[j])

\* the three-node example of C9: labels A = 1, B = 2, C = 3 and the directed
\* edges A->B, B->A, B->C
C9_Example ==
    /\ NormsComputed
    /\ DiGraphEdges(bios_graph_data) = {<<1, 2>>, <<2, 1>>, <<2, 3>>}

NormOfPair(a, b) ==
    edge_norm[CHOOSE i \in DOMAIN bios_graph_data :
                 bios_graph_data[i].agent_A = a /\ bios_graph_data[i].agent_B = b]

\* C9 as stated: centrality(A) = 1/2, centrality(B) = 1, centrality(C) = 0,
\* norm(A->B)^2 = norm(B->A)^2 = 1/2 and norm(B->C) = 0.
C9_OutDegreeExample ==
    C9_Example =>
        /\ RatEq(dict1[1], Rat(1, 2))
        /\ RatEq(dict1[2], Rat(1, 1))
        /\ RatEq(dict1[3], Rat(0, 1))
        /\ RatEq(NormOfPair(1, 2), Rat(1, 2))
        /\ RatEq(NormOfPair(2, 1), Rat(1, 2))
        /\ RatEq(NormOfPair(2, 3), Rat(0, 1))

\* C9 amended: centrality(A) = 1, centrality(B) = 3/2, centrality(C) = 1/2,
\* norm(A->B)^2 = norm(B->A)^2 = 3/2 and norm(B->C)^2 = 3/4.
C9_DegreeExample ==
    C9_Example =>
        /\ RatEq(dict1[1], Rat(1, 1))
        /\ RatEq(dict1[2], Rat(3, 2))
        /\ RatEq(dict1[3], Rat(1, 2))
        /\ RatEq(NormOfPair(1, 2), Rat(3, 2))
        /\ RatEq(NormOfPair(2, 1), Rat(3, 2))
        /\ RatEq(NormOfPair(2, 3), Rat(3, 4))

C9_Witness ==
    /\ C9_Example
    /\ RatEq(NormOfPair(2, 3), Rat(3, 4))

\* distinct successors plus distinct predecessors of label v in the triples
C10_Degree(v) ==
    Cardinality({AgentB[j] : j \in {k \in DOMAIN AgentA : AgentA[k] = v}})
  + Cardinality({AgentA[j] : j \in {k \in DOMAIN AgentB : AgentB[k] = v}})

C10_NormIsDegreeProduct ==
    \A i \in DOMAIN bios_graph_data :
        edge_norm[i].num * (NumNodeLabels - 1) * (NumNodeLabels - 1)
          = C10_Degree(AgentA[i]) * C10_Degree(AgentB[i]) * edge_norm[i].den

\* C10 as stated: for every triple, edge_norm^2 * (N-1)^2 = deg(src) * deg(dst),
\* deg = out-degree + in-degree with duplicate pairs collapsed, N the number of
\* distinct node labels.
C10_EveryTriple == NormsComputed => C10_NormIsDegreeProduct

\* C10 amended: the same, for triples over at least two distinct node labels;
\* with a single node label every edge_norm^2 is 1.
C10_AtLeastTwoNodes ==
    NormsComputed =>
        /\ (NumNodeLabels >= 2 => C10_NormIsDegreeProduct)
        /\ (NumNodeLabels = 1 =>
               \A i \in DOMAIN bios_graph_data : RatEq(edge_norm[i], Rat(1, 1)))

\* two triples with the same (subject, object) and different relations, and a
\* node that has both an in- and an out-edge
C10_Witness ==
    /\ NormsComputed
    /\ NumNodeLabels >= 2
    /\ \E i, j \in DOMAIN bios_graph_data :
          /\ i # j
          /\ AgentA[i] = AgentA[j] /\ AgentB[i] = AgentB[j]
          /\ StmtType[i] # StmtType[j]
    /\ \E i, j \in DOMAIN bios_graph_data : AgentB[i] = AgentA[j] /\ AgentA[i] # AgentB[j]
    /\ \A i \in DOMAIN bios_graph_data : edge_norm[i].num > 0

EdataSet == cell = "done"

\* C11 as stated: every edge of the constructed graph has a relation id in
\* [0, R), R the notebook's num_rels, and a norm in (0, 1], that is
\* 0 < centrality(src) * centrality(dst) <= 1.
C11_NormInUnitInterval ==
    EdataSet =>
        \A e \in DOMAIN g.rel_type :
            /\ g.rel_type[e] \in 0..(num_rels - 1)
            /\ 0 < g.norm[e].num * g.norm[e].den
            /\ g.norm[e].num <= g.norm[e].den

\* C11 amended: every edge has a relation id in [0, R) and a norm > 0; the norm
\* is not bounded by 1 (a centrality counts in- and out-edges): for N >= 2 node
\* labels norm^2 <= (2N / (N - 1))^2, for N = 1 the norm is 1.
C11_RelIdInRangeNormPositive ==
    EdataSet =>
        \A e \in DOMAIN g.rel_type :
            /\ g.rel_type[e] \in 0..(num_rels - 1)
            /\ g.norm[e].num > 0 /\ g.norm[e].den > 0
            /\ NumNodeLabels >= 2 =>
                  g.norm[e].num * (NumNodeLabels - 1) * (NumNodeLabels - 1)
                     <= 4 * NumNodeLabels * NumNodeLabels * g.norm[e].den
            /\ NumNodeLabels = 1 => RatEq(g.norm[e], Rat(1, 1))

\* two relation types in use and an edge whose norm exceeds 1
C11_Witness ==
    /\ EdataSet
    /\ num_rels = 2
    /\ \E e \in DOMAIN g.norm : g.norm[e].num > g.norm[e].den

(***************************************************************************)
(* Properties of RGCNLayer.                                                *)
(***************************************************************************)
Constructed == lpc \in {"constructed", "forwarded"}
Forwarded == lpc = "forwarded"
NumEdges == Len(g.src)
ValidRelIds == \A e \in 1..NumEdges : g.rel_type[e] \in 0..(self.num_rels - 1)
ValidConfig == self.in_feat > 0 /\ self.out_feat > 0 /\ self.num_rels > 0

\* C1: when 0 < B < R the weight forward uses is
\* Weight_r[i][o] = sum over b of w_comp[r][b] * weight[b][i][o].
C1_BasisReconstruction ==
    (Forwarded /\ ValidConfig /\ 0 < self.num_bases /\ self.num_bases < self.num_rels) =>
        /\ weight.ok
        /\ weight.shape = <<self.num_rels, self.in_feat, self.out_feat>>
        /\ \A r \in 0..(self.num_rels - 1), i \in 0..(self.in_feat - 1),
              o \in 0..(self.out_feat - 1) :
              At3(weight, r, i, o) =
                 SumTo([b \in 0..(self.num_bases - 1) |->
                           At2(self.w_comp, r, b) * At3(self.weight, b, i, o)],
                       self.num_bases)

\* C2: in input mode with in_dim equal to the node count, for any number of
\* edges and any out_dim, the message of edge e is row rel_id(e)*in_dim + src_id(e)
\* of the weight viewed as an (R*in_dim) x out_dim table, times norm(e).
C2_InputMessageIsScaledRow ==
    (Forwarded /\ ValidConfig /\ self.is_input_layer /\ self.in_feat = g.num_nodes
       /\ ValidRelIds) =>
        /\ msg.ok
        /\ msg.shape = <<NumEdges, self.out_feat>>
        /\ \A e \in 1..NumEdges, o \in 0..(self.out_feat - 1) :
              At2(msg, e - 1, o) =
                 weight.data[(g.rel_type[e] * self.in_feat + g.src[e]) * self.out_feat + o + 1]
                   * g.norm[e]

\* C3: in hidden mode, for any edge count >= 1 and any out_dim >= 1, the message
\* of edge e is the vector of length out_dim src_feature(e) . Weight[rel_id(e)]
\* times norm(e).  (Stated for graphs whose rel_type tensor is int64, the dtype
\* torch accepts as an index; the message tensor is read by its values, whatever
\* dimensions of size 1 squeeze() removed from its shape.)
C3_HiddenMessageIsScaledProduct ==
    (Forwarded /\ ValidConfig /\ ~self.is_input_layer /\ ValidRelIds
       /\ g.rel_dtype = "int64") =>
        /\ msg.ok
        /\ Numel(msg.shape) = NumEdges * self.out_feat
        /\ \A e \in 1..NumEdges, o \in 0..(self.out_feat - 1) :
              msg.data[(e - 1) * self.out_feat + o + 1] =
                 SumTo([i \in 0..(self.in_feat - 1) |->
                           At2(g.h, g.src[e], i) * At3(weight, g.rel_type[e], i, o)],
                       self.in_feat) * g.norm[e]

\* C6: a layer with out_dim <= 0, in_dim <= 0 or num_relations <= 0 is never
\* constructed (so no forward pass runs on it).
C6_InvalidConfigRejected ==
    Constructed => (self.in_feat > 0 /\ self.out_feat > 0 /\ self.num_rels > 0)

\* C7: a forward pass over a graph with an edge whose relation id is outside
\* [0, R) raises, in input mode and in hidden mode.
C7_BadRelationIdRejected ==
    (Forwarded /\ ValidConfig /\ ~ValidRelIds) => ~msg.ok

\* C8: after construction 0 < B <= num_rels; a configured value <= 0 or
\* > num_rels became num_rels (and there is no coefficient matrix), a configured
\* value in (0, num_rels] is kept.
C8_BasisCountInRange ==
    Constructed =>
        /\ 0 < self.num_bases /\ self.num_bases <= self.num_rels
        /\ (self.num_bases_arg <= 0 \/ self.num_bases_arg > self.num_rels)
              => (self.num_bases = self.num_rels /\ self.w_comp = None)
        /\ (0 < self.num_bases_arg /\ self.num_bases_arg <= self.num_rels)
              => self.num_bases = self.num_bases_arg

(***************************************************************************)
(* Properties of the reduce and apply steps of RGCNLayer.forward.          *)
(***************************************************************************)
\* the message tensor has one row per edge
OneMessagePerEdge == msg.ok /\ msg.shape[1] = NumEdges
MsgWidth == Numel(Tail(msg.shape))
MessageAt(e, f) == msg.data[(e - 1) * MsgWidth + f + 1]
AggAt(v, f) == agg.data[v * MsgWidth + f + 1]
InEdges(v) == {e \in 1..NumEdges : g.dst[e] = v}

RECURSIVE SumOver(_, _)
SumOver(S, val) ==
    IF S = {} THEN 0
    ELSE LET e == CHOOSE x \in S : TRUE
         IN  val[e] + SumOver(S \ {e}, val)

\* C12: after forward, before bias and activation, the feature of every node is
\* the sum of the messages of exactly the edges whose destination it is, and a
\* node without incoming edges has the zero vector.
C12_AggregateIsSumOfIncoming ==
    (Forwarded /\ OneMessagePerEdge) =>
        /\ agg.ok
        /\ agg.shape = <<g.num_nodes>> \o Tail(msg.shape)
        /\ \A v \in 0..(g.num_nodes - 1), f \in 0..(MsgWidth - 1) :
              /\ AggAt(v, f) = SumOver(InEdges(v), [e \in 1..NumEdges |-> MessageAt(e, f)])
              /\ InEdges(v) = {} => AggAt(v, f) = 0

\* node 0 receives two nonzero messages, node 1 none
C12_Witness ==
    /\ Forwarded /\ OneMessagePerEdge /\ agg.ok
    /\ g.num_nodes = 2
    /\ g.dst = <<0, 0>>
    /\ \A f \in 0..(MsgWidth - 1) :
          /\ MessageAt(1, f) # 0 /\ MessageAt(2, f) # 0
          /\ AggAt(0, f) = MessageAt(1, f) + MessageAt(2, f)
          /\ AggAt(0, f) # 0
          /\ AggAt(1, f) = 0

EdgePermutations == {p \in [1..NumEdges -> 1..NumEdges] :
                        \A i, j \in 1..NumEdges : i # j => p[i] # p[j]}

\* the same edges listed in another order, each keeping its src, dst, rel_type
\* and norm
PermuteEdges(gr, p) ==
    [gr EXCEPT !.src = [e \in 1..NumEdges |-> gr.src[p[e]]],
               !.dst = [e \in 1..NumEdges |-> gr.dst[p[e]]],
               !.rel_type = [e \in 1..NumEdges |-> gr.rel_type[p[e]]],
               !.norm = [e \in 1..NumEdges |-> gr.norm[p[e]]]]

\* C13: forward on any permutation of the edge list (each edge keeping its own
\* src, dst, rel_type and norm) produces the same per-node aggregated message
\* as on the original order.
C13_EdgeOrderIndependent ==
    Forwarded =>
        \A p \in EdgePermutations :
            LayerForward(self, PermuteEdges(g, p)).agg = agg

NoDecomposition == Forwarded /\ self.num_bases = self.num_rels

\* entry [r][b] of the identity coefficient matrix
IdentityCoefficient(r, b) == IF r = b THEN 1 ELSE 0

\* C14: with B == R the weight forward uses for relation r is the r-th stored
\* weight matrix exactly, which is also what a decomposition over the stored
\* matrices with the identity coefficient matrix reconstructs.
C14_DirectWeightsAreStoredWeights ==
    NoDecomposition =>
        /\ weight.ok
        /\ weight.shape = <<self.num_rels, self.in_feat, self.out_feat>>
        /\ \A r \in 0..(self.num_rels - 1), i \in 0..(self.in_feat - 1),
              o \in 0..(self.out_feat - 1) :
              /\ At3(weight, r, i, o) = At3(self.weight, r, i, o)
              /\ At3(weight, r, i, o) =
                    SumTo([b \in 0..(self.num_bases - 1) |->
                              IdentityCoefficient(r, b) * At3(self.weight, b, i, o)],
                          self.num_bases)

\* two relations, two stored matrices of two rows that differ
C14_Witness ==
    /\ NoDecomposition
    /\ self.num_rels = 2 /\ self.in_feat = 2 /\ self.out_feat = 1
    /\ weight = self.weight
    /\ At3(weight, 0, 1, 0) # At3(weight, 1, 0, 0)

BiasConfigured == self.bias # None

Activated(t) ==
    IF self.activation = "None" THEN t
    ELSE IF self.activation = "relu" THEN Relu(t)
    ELSE Softmax(t)

\* C16: in the apply step the new feature of every node is its aggregated sum,
\* plus the layer-wide bias exactly if a bias is configured, then passed through
\* the activation exactly if one is configured, in that order; with neither
\* configured it is the aggregated sum unchanged.
C16_BiasThenActivation ==
    (Forwarded /\ agg.ok) =>
        /\ ApplyOps(self) =
              (IF BiasConfigured THEN <<"add_bias">> ELSE <<>>)
                 \o (IF self.activation # "None" THEN <<"activation">> ELSE <<>>)
        /\ h = Activated(IF BiasConfigured THEN AddBias(agg, self.bias) ELSE agg)
        /\ (~BiasConfigured /\ self.activation = "None") => h = agg

(***************************************************************************)
(* Properties of Model, Model.forward and the training loop.               *)
(***************************************************************************)
ModelBuilt == model # None /\ model.layers # <<>>

\* C15: a Model built with num_hidden_layers = k >= 0 has k + 2 layers; only the
\* first is in input mode and its in_feat is the node count; every later layer's
\* in_feat is the previous layer's out_feat, the hidden width; the last layer's
\* out_feat is the number of classes; every layer but the last uses relu, the
\* last softmax.
C15_LayerStack ==
    (ModelBuilt /\ model.num_hidden_layers >= 0) =>
        LET L == model.layers
            n == Len(model.layers)
        IN  /\ n = model.num_hidden_layers + 2
            /\ L[1].is_input_layer
            /\ L[1].in_feat = g.num_nodes
            /\ \A i \in 2..n :
                  /\ ~L[i].is_input_layer
                  /\ L[i].in_feat = L[i - 1].out_feat
                  /\ L[i].in_feat = model.h_dim
            /\ L[n].out_feat = model.out_dim
            /\ \A i \in 1..(n - 1) : L[i].activation = "relu"
            /\ L[n].activation = "softmax"

\* one hidden layer between the input and the output layer, hidden width 2,
\* one class
C15_Witness ==
    /\ ModelBuilt
    /\ model.num_hidden_layers = 1
    /\ Len(model.layers) = 3
    /\ model.h_dim = 2 /\ model.out_dim = 1 /\ g.num_nodes = 1
    /\ model.layers[2].in_feat = 2 /\ model.layers[2].out_feat = 2
    /\ model.layers[3].activation = "softmax"

\* one step of Model.forward as C17 describes it
C17_Step ==
    /\ (mpc = "forward" /\ mpc' = "layers") =>
          \* every node's 'id' is its own integer id, before any layer runs
          /\ g'.id = [v \in 1..g.num_nodes |-> v - 1]
          /\ li' = 1
    /\ (mpc = "layers" /\ mpc' \in {"layers", "raised"}) =>
          \* the layer that runs is the next one of the stack, and only the
          \* first is in input mode
          /\ self' = model.layers[li]
          /\ self'.is_input_layer <=> (li = 1)
          /\ li' \in {li, li + 1}
          \* its messages are computed from the feature the previous layer
          \* wrote (the pre-state of the graph), and without 'id' after the
          \* first layer
          /\ (li > 1) => g.h = h
          /\ msg' = IF li = 1
                    THEN InputMessage(self', weight', g)
                    ELSE HiddenMessage(self', weight', [g EXCEPT !.id = None])
          /\ h' = ApplyFunc(self', SumReduce(msg', g))
          /\ (li' = li + 1) <=> h'.ok
          /\ g'.h = IF h'.ok THEN h' ELSE g.h
    /\ (mpc = "layers" /\ mpc' = "loss") =>
          \* the value returned is what the last layer wrote, and 'h' is popped
          /\ li = Len(model.layers) + 1
          /\ logits' = h
          /\ logits' = g.h
          /\ g'.h = None

\* C17: Model.forward sets every node's 'id' to its integer id, then runs the
\* layers in stack order, each on the node feature written by the previous one;
\* only the first layer reads 'id'; the value returned is the feature written by
\* the last layer, which is removed from the graph.
C17_ForwardInStackOrder == [][C17_Step]_vars

\* forward returned from a stack of three layers
C17_Witness ==
    /\ mpc = "loss"
    /\ Len(model.layers) = 3
    /\ li = 4
    /\ logits = h /\ logits.ok
    /\ g.h = None
    /\ g.id = <<0, 1>>

TrainingStarted == optimizer # None
TrainingStopped == TrainingStarted /\ mpc \in {"raised", "trained"}

\* the order of the statements of one epoch, and of consecutive epochs
C18_Order ==
    /\ (mpc # "forward" /\ mpc' = "forward") => mpc = "zero_grad"
    /\ (mpc # "loss" /\ mpc' = "loss") => (mpc = "layers" /\ li > Len(model.layers))
    /\ (mpc # "backward" /\ mpc' = "backward") => mpc = "loss"
    /\ (mpc # "step" /\ mpc' = "step") => mpc = "backward"
    /\ (TrainingStarted /\ optimizer'.step # optimizer.step) =>
          \* the optimizer writes only after this epoch's backward pass
          /\ mpc = "step"
          /\ optimizer.grads = "computed"
          /\ optimizer'.step = epoch + 1
    /\ (TrainingStarted /\ epoch' # epoch) =>
          \* the next epoch starts only after this epoch's optimizer step
          /\ epoch' = epoch + 1
          /\ optimizer.step = epoch + 1

\* C18: every one of the n_epochs epochs runs zero_grad, forward, loss, backward
\* and the optimizer step, in that order; the optimizer never writes before the
\* epoch's backward pass, no forward starts before the previous epoch's
\* optimizer step, and the loop ends only after n_epochs such epochs.
C18_EveryEpochRunsInOrder ==
    /\ [][C18_Order]_vars
    /\ [](TrainingStopped => (mpc = "trained" /\ epoch = n_epochs
                                 /\ optimizer.step = n_epochs))

(***************************************************************************)
(* Properties of the input layer's row index.                              *)
(***************************************************************************)
\* C19: with int8 rel_type the row index of every edge is the exact integer
\* rel_id * in_dim + src_id and lies in [rel_id * in_dim, (rel_id + 1) * in_dim):
\* the multiplication does not wrap modulo 2^8 for any rel_id in [0, R) and any
\* in_dim up to the node count.
C19_IndexIsExact ==
    (lpc = "indexed" /\ g.rel_dtype = "int8" /\ self.in_feat <= g.num_nodes
       /\ \A e \in DOMAIN index : g.rel_type[e] \in 0..(self.num_rels - 1)) =>
        \A e \in DOMAIN index :
            /\ index[e] = g.rel_type[e] * self.in_feat + g.src[e]
            /\ index[e] >= g.rel_type[e] * self.in_feat
            /\ index[e] < (g.rel_type[e] + 1) * self.in_feat
====
